---- MODULE Spec2Model ----
(***************************************************************************)
(* Model of src/worker.js: a Cloudflare Worker that proxies requests to    *)
(* the TMDB API and synthesises video embed URLs.                          *)
(*                                                                         *)
(* One inbound request is handled per behaviour.  The handler `fetch` runs *)
(* synchronously up to its first await; the two awaits (the outbound fetch *)
(* and the body parse) are the only suspension points and are modelled as  *)
(* separate steps whose outcome is chosen by the environment.              *)
(*                                                                         *)
(* Conventions                                                             *)
(*   - url.searchParams and env are functions from the names that are      *)
(*     present to their string values; has(p, k) is k \in DOMAIN p and a   *)
(*     get() of an absent name is JavaScript null / undefined.             *)
(*   - a nullable JavaScript value is a sequence of length at most one:    *)
(*     <<>> is null and <<v>> is the value v.  A Response is               *)
(*     [status, headers, body] whose body is <<>> for a null body and      *)
(*     <<v>> for the body JSON.stringify(v).                               *)
(***************************************************************************)
EXTENDS Integers, Sequences, FiniteSets, TLC

VARIABLES
    pc,          \* position of the handler: "idle", "fetching", "parsing", "done"
    method,      \* request.method
    params,      \* url.searchParams
    env,         \* env (secrets and provider overrides)
    action,      \* the local variable `action`
    tmdbApiUrl,  \* the local variable `tmdbApiUrl`
    outbound,    \* the URLs passed to the outbound fetch(), in order
    upstream,    \* how the outbound call went: [fetch, json, data]
    responses    \* the Responses returned by the handler, in order

vars == <<pc, method, params, env, action, tmdbApiUrl, outbound, upstream, responses>>

-----------------------------------------------------------------------------
(* Bounds of the input space *)

\* at most this many optional inputs are present in one invocation, counting
\* the query parameters of the request and the provider URL overrides of env
MaxInputs == 4

-----------------------------------------------------------------------------
(* Inputs *)

ParamNames ==
    {"details", "credits", "popular", "query", "imdb_id", "tmdb_id",
     "action", "provider", "type", "page", "media_type"}

ParamValues(name) ==
    CASE name = "details"    -> {"", "550"}
      [] name = "credits"    -> {"", "551"}
      [] name = "popular"    -> {"", "true"}
      [] name = "query"      -> {"", "foo bar"}
      [] name = "imdb_id"    -> {"", "tt123"}
      [] name = "tmdb_id"    -> {"", "552"}
      [] name = "action"     -> {"embed", "getProviders", "search"}
      [] name = "provider"   -> {"", "vidsrc.cc", "vidrock.net", "vidsrc.me",
                                 "vidfast.pro", "unknown.domain", "toString"}
      [] name = "type"       -> {"tv", "movie", "TV"}
      [] name = "page"       -> {"2"}
      [] name = "media_type" -> {"", "tv"}

OverrideNames ==
    {"VIDSRC_CC_URL", "VIDROCK_NET_URL", "VIDSRC_ME_URL", "VIDFAST_PRO_URL"}

EnvValues(name) ==
    CASE name = "TMDB_API_KEY"    -> {"", "k3y"}
      [] name = "VIDSRC_CC_URL"   -> {"", "https://cc.mirror/e/"}
      [] name = "VIDROCK_NET_URL" -> {"", "https://rock.mirror/"}
      [] name = "VIDSRC_ME_URL"   -> {"", "https://me.mirror/embed/"}
      [] name = "VIDFAST_PRO_URL" -> {"", "https://fast.mirror/"}

Methods == {"GET", "OPTIONS"}

\* the values tmdbResponse.json() can resolve with
UpstreamData == {[id |-> 550], [status_code |-> 34]}

EmptyMap == [k \in {} |-> ""]

RECURSIVE ParamMaps(_)
ParamMaps(S) ==
    IF S = {} THEN {EmptyMap}
    ELSE LET k == CHOOSE x \in S : TRUE
         IN  {(k :> v) @@ m : v \in ParamValues(k), m \in ParamMaps(S \ {k})}

RECURSIVE EnvMaps(_)
EnvMaps(S) ==
    IF S = {} THEN {EmptyMap}
    ELSE LET k == CHOOSE x \in S : TRUE
         IN  {(k :> v) @@ m : v \in EnvValues(k), m \in EnvMaps(S \ {k})}

\* the search parameters of the requests
Requests ==
    UNION {ParamMaps(S) : S \in {T \in SUBSET ParamNames : Cardinality(T) <= MaxInputs}}

\* the env objects with at most n provider overrides, with and without the key
EnvsUpTo(n) ==
    UNION {EnvMaps(S \cup K) :
             S \in {T \in SUBSET OverrideNames : Cardinality(T) <= n},
             K \in {{}, {"TMDB_API_KEY"}}}

\* every env object
Envs == EnvsUpTo(Cardinality(OverrideNames))

-----------------------------------------------------------------------------
(* JavaScript helpers *)

\* URLSearchParams.has(name), and `name in env`
has(m, name) == name \in DOMAIN m

\* `m.get(name) === value`: false when the name is absent (get gives null)
getIs(m, name, value) == has(m, name) /\ m[name] = value

\* truthiness of `m.get(name)` / `env.NAME`: present and not the empty string
truthy(m, name) == has(m, name) /\ m[name] # ""

\* `m.get(name) || dflt`
orElse(m, name, dflt) == IF truthy(m, name) THEN m[name] ELSE dflt

Unreserved ==
    {"A","B","C","D","E","F","G","H","I","J","K","L","M","N","O","P","Q","R",
     "S","T","U","V","W","X","Y","Z","a","b","c","d","e","f","g","h","i","j",
     "k","l","m","n","o","p","q","r","s","t","u","v","w","x","y","z","0","1",
     "2","3","4","5","6","7","8","9","-","_",".","!","~","*","'","(",")"}

encodeChar(c) ==
    IF c \in Unreserved THEN c
    ELSE CASE c = " " -> "%20" [] c = "\"" -> "%22" [] c = "#" -> "%23"
           [] c = "$" -> "%24" [] c = "%" -> "%25" [] c = "&" -> "%26"
           [] c = "+" -> "%2B" [] c = "," -> "%2C" [] c = "/" -> "%2F"
           [] c = ":" -> "%3A" [] c = ";" -> "%3B" [] c = "<" -> "%3C"
           [] c = "=" -> "%3D" [] c = ">" -> "%3E" [] c = "?" -> "%3F"
           [] c = "@" -> "%40" [] c = "[" -> "%5B" [] c = "\\" -> "%5C"
           [] c = "]" -> "%5D" [] c = "^" -> "%5E"
           [] c = "{" -> "%7B" [] c = "|" -> "%7C" [] c = "}" -> "%7D"

RECURSIVE encodeURIComponent(_)
encodeURIComponent(s) ==
    IF Len(s) = 0 THEN ""
    ELSE encodeChar(SubSeq(s, 1, 1)) \o encodeURIComponent(SubSeq(s, 2, Len(s)))

-----------------------------------------------------------------------------
(* Responses *)

corsHeaders ==
    ("Access-Control-Allow-Origin" :> "*")
    @@ ("Access-Control-Allow-Methods" :> "GET, HEAD, OPTIONS")
    @@ ("Access-Control-Allow-Headers" :> "Content-Type")
    @@ ("X-Content-Type-Options" :> "nosniff")

\* { ...corsHeaders, 'Content-Type': 'application/json' }
jsonHeaders == ("Content-Type" :> "application/json") @@ corsHeaders

\* variant: the preflight response built with the JSON headers
preflightResponse_jsonHeaders == [status |-> 200, headers |-> jsonHeaders, body |-> <<>>]

\* new Response(null, { headers: corsHeaders })
preflightResponse == [status |-> 200, headers |-> corsHeaders, body |-> <<>>]

\* new Response(JSON.stringify(obj), { status, headers: jsonHeaders })
jsonResponse(status, obj) == [status |-> status, headers |-> jsonHeaders, body |-> <<obj>>]

missingKeyResponse ==
    jsonResponse(500, [error |-> "Server configuration error: TMDB_API_KEY secret not set."])

videoProviderList ==
    << [name |-> "alpha",   domain |-> "vidsrc.cc",   sandbox |-> TRUE],
       [name |-> "bravo",   domain |-> "vidrock.net", sandbox |-> TRUE],
       [name |-> "charlie", domain |-> "vidsrc.me",   sandbox |-> TRUE],
       [name |-> "delta",   domain |-> "vidfast.pro", sandbox |-> TRUE] >>

providersResponse == jsonResponse(200, [providers |-> videoProviderList])

embedErrorResponse ==
    jsonResponse(400, [error |-> "Invalid provider or unable to generate embed URL."])

badRequestResponse ==
    jsonResponse(400, [error |-> "Missing or invalid query parameters."])

relayResponse(data) == jsonResponse(200, data)

\* variant: the catch block answers 500
upstreamFailureResponse_500 ==
    jsonResponse(500, [error |-> "Failed to fetch data from TMDB API."])

upstreamFailureResponse ==
    jsonResponse(502, [error |-> "Failed to fetch data from TMDB API."])

-----------------------------------------------------------------------------
(* Routing *)

\* const mediaType = params.get('type') === 'tv' ? 'tv' : 'movie'
mediaType(p) == IF getIs(p, "type", "tv") THEN "tv" ELSE "movie"

\* variant: the action=embed test placed before the tmdb_id test
classify_embedBeforeTmdbId(p) ==
    IF has(p, "details") THEN "details"
    ELSE IF has(p, "credits") THEN "credits"
    ELSE IF has(p, "popular") THEN "popular"
    ELSE IF has(p, "query") THEN "search"
    ELSE IF has(p, "imdb_id") /\ ~getIs(p, "action", "embed") THEN "findByImdbId"
    ELSE IF getIs(p, "action", "embed") THEN "embed"
    ELSE IF has(p, "tmdb_id") THEN "getExternalIds"
    ELSE IF getIs(p, "action", "getProviders") THEN "getProviders"
    ELSE "error"

\* the if / else-if chain that assigns `action`
classify(p) ==
    IF has(p, "details") THEN "details"
    ELSE IF has(p, "credits") THEN "credits"
    ELSE IF has(p, "popular") THEN "popular"
    ELSE IF has(p, "query") THEN "search"
    ELSE IF has(p, "imdb_id") /\ ~getIs(p, "action", "embed") THEN "findByImdbId"
    ELSE IF has(p, "tmdb_id") THEN "getExternalIds"
    ELSE IF getIs(p, "action", "embed") THEN "embed"
    ELSE IF getIs(p, "action", "getProviders") THEN "getProviders"
    ELSE "error"

\* the switch cases that assign tmdbApiUrl and break
OutboundActions ==
    {"details", "credits", "popular", "search", "findByImdbId", "getExternalIds"}

TmdbBase == "https://api.themoviedb.org/3/"

\* variant: params.get('media_type') || mediaType
popularMediaType_fromType(p) == orElse(p, "media_type", mediaType(p))

\* const popularMediaType = params.get('media_type') || 'movie'
popularMediaType(p) == orElse(p, "media_type", "movie")

\* the media-type path segment of the URL built for action a
mediaSegment(a, p) == IF a = "popular" THEN popularMediaType(p) ELSE mediaType(p)

\* the value assigned to tmdbApiUrl by the case of action a
buildTmdbApiUrl(a, p, apiKey) ==
    CASE a = "details" ->
           TmdbBase \o mediaSegment(a, p) \o "/" \o p["details"]
             \o "?api_key=" \o apiKey \o "&language=en-US"
      [] a = "credits" ->
           TmdbBase \o mediaSegment(a, p) \o "/" \o p["credits"]
             \o "/credits?api_key=" \o apiKey \o "&language=en-US"
      [] a = "popular" ->
           TmdbBase \o mediaSegment(a, p) \o "/popular?api_key=" \o apiKey
             \o "&language=en-US&page=" \o orElse(p, "page", "1")
      [] a = "search" ->
           TmdbBase \o "search/multi?api_key=" \o apiKey \o "&query="
             \o encodeURIComponent(p["query"]) \o "&language=en-US&page=1"
      [] a = "findByImdbId" ->
           TmdbBase \o "find/" \o p["imdb_id"] \o "?api_key=" \o apiKey
             \o "&external_source=imdb_id"
      [] a = "getExternalIds" ->
           TmdbBase \o mediaSegment(a, p) \o "/" \o p["tmdb_id"]
             \o "/external_ids?api_key=" \o apiKey
      [] OTHER -> ""

-----------------------------------------------------------------------------
(* Embed URL generator *)

null == <<>>

\* property names an object literal inherits from Object.prototype: looking
\* one up in providerConfigs yields a truthy value that is not a base URL
ObjectPrototypeKeys ==
    {"constructor", "toString", "toLocaleString", "valueOf", "hasOwnProperty",
     "isPrototypeOf", "propertyIsEnumerable", "__proto__", "__defineGetter__",
     "__defineSetter__", "__lookupGetter__", "__lookupSetter__"}

\* variant: the vidsrc.me entry reads the vidsrc.cc override
providerConfigs_copyPaste(e) ==
    ("vidsrc.cc" :> orElse(e, "VIDSRC_CC_URL", "https://vidsrc.cc/v2/embed/"))
    @@ ("vidrock.net" :> orElse(e, "VIDROCK_NET_URL", "https://vidrock.net/"))
    @@ ("vidsrc.me" :> orElse(e, "VIDSRC_CC_URL", "https://vidsrc.me/embed/"))
    @@ ("vidfast.pro" :> orElse(e, "VIDFAST_PRO_URL", "https://vidfast.pro/"))

\* the object literal providerConfigs
providerConfigs(e) ==
    ("vidsrc.cc" :> orElse(e, "VIDSRC_CC_URL", "https://vidsrc.cc/v2/embed/"))
    @@ ("vidrock.net" :> orElse(e, "VIDROCK_NET_URL", "https://vidrock.net/"))
    @@ ("vidsrc.me" :> orElse(e, "VIDSRC_ME_URL", "https://vidsrc.me/embed/"))
    @@ ("vidfast.pro" :> orElse(e, "VIDFAST_PRO_URL", "https://vidfast.pro/"))

\* variant: the switch has no default case, so embedUrl stays ''
generateEmbedUrl_noDefault(provider, imdbId, type, e) ==
    LET configs == providerConfigs(e)
        baseUrl == configs[provider]
    IN  IF provider \notin DOMAIN configs /\ provider \notin ObjectPrototypeKeys
        THEN null
        ELSE CASE provider = "vidsrc.cc" ->
                    <<IF type = "tv" THEN baseUrl \o "tv/" \o imdbId
                                     ELSE baseUrl \o "movie/" \o imdbId>>
               [] provider = "vidrock.net" ->
                    <<IF type = "tv" THEN baseUrl \o "tv/" \o imdbId
                                     ELSE baseUrl \o "movie/" \o imdbId>>
               [] provider = "vidsrc.me" ->
                    <<baseUrl \o type \o "/" \o imdbId>>
               [] provider = "vidfast.pro" ->
                    <<baseUrl \o type \o "/" \o imdbId \o "?autoPlay=true">>
               [] OTHER -> <<"">>

generateEmbedUrl(provider, imdbId, type, e) ==
    LET configs == providerConfigs(e)
        baseUrl == configs[provider]
    IN  IF provider \notin DOMAIN configs /\ provider \notin ObjectPrototypeKeys
        THEN null
        ELSE CASE provider = "vidsrc.cc" ->
                    <<IF type = "tv" THEN baseUrl \o "tv/" \o imdbId
                                     ELSE baseUrl \o "movie/" \o imdbId>>
               [] provider = "vidrock.net" ->
                    <<IF type = "tv" THEN baseUrl \o "tv/" \o imdbId
                                     ELSE baseUrl \o "movie/" \o imdbId>>
               [] provider = "vidsrc.me" ->
                    <<baseUrl \o type \o "/" \o imdbId>>
               [] provider = "vidfast.pro" ->
                    <<baseUrl \o type \o "/" \o imdbId \o "?autoPlay=true">>
               [] OTHER -> null

\* variant: case 'embed' ends with the 400 response instead of falling through
embedCase_errorOnMissing(p, e) ==
    IF truthy(p, "provider") /\ truthy(p, "imdb_id")
    THEN LET embedUrl == generateEmbedUrl(p["provider"], p["imdb_id"], mediaType(p), e)
         IN  IF embedUrl # null /\ embedUrl # <<"">>
             THEN jsonResponse(200, [embedUrl |-> embedUrl[1]])
             ELSE embedErrorResponse
    ELSE embedErrorResponse

\* case 'embed', including its fall through into case 'getProviders'
embedCase(p, e) ==
    IF truthy(p, "provider") /\ truthy(p, "imdb_id")
    THEN LET embedUrl == generateEmbedUrl(p["provider"], p["imdb_id"], mediaType(p), e)
         IN  IF embedUrl # null /\ embedUrl # <<"">>
             THEN jsonResponse(200, [embedUrl |-> embedUrl[1]])
             ELSE embedErrorResponse
    ELSE providersResponse

\* the response of the switch cases that return without an outbound call
localResponse(a, p, e) ==
    CASE a = "embed" -> embedCase(p, e)
      [] a = "getProviders" -> providersResponse
      [] OTHER -> badRequestResponse

\* variant: if (apiKey === undefined)
apiKeyMissing_undefinedOnly(e) == ~has(e, "TMDB_API_KEY")

\* if (!apiKey)
apiKeyMissing(e) == ~truthy(e, "TMDB_API_KEY")

-----------------------------------------------------------------------------
(* The handler *)

Init ==
    /\ pc = "idle"
    /\ method = ""
    /\ params = EmptyMap
    /\ env = EmptyMap
    /\ action = ""
    /\ tmdbApiUrl = ""
    /\ outbound = <<>>
    /\ upstream = [fetch |-> "none", json |-> "none", data |-> <<>>]
    /\ responses = <<>>

Return(r) ==
    /\ pc' = "done"
    /\ responses' = Append(responses, r)

\* fetch(request, env, ctx) up to its first await or its return
fetch(m, p, e) ==
    /\ method' = m
    /\ params' = p
    /\ env' = e
    /\ IF m = "OPTIONS"
       THEN /\ Return(preflightResponse)
            /\ UNCHANGED <<action, tmdbApiUrl, outbound, upstream>>
       ELSE IF apiKeyMissing(e)
       THEN /\ Return(missingKeyResponse)
            /\ UNCHANGED <<action, tmdbApiUrl, outbound, upstream>>
       ELSE LET a == classify(p)
                u == buildTmdbApiUrl(a, p, e["TMDB_API_KEY"])
            IN  /\ action' = a
                /\ IF a \notin OutboundActions
                   THEN /\ Return(localResponse(a, p, e))
                        /\ UNCHANGED <<tmdbApiUrl, outbound, upstream>>
                   ELSE /\ tmdbApiUrl' = u
                        /\ IF u = ""
                           THEN /\ Return(upstreamFailureResponse)
                                /\ UNCHANGED <<outbound, upstream>>
                           ELSE /\ pc' = "fetching"
                                /\ outbound' = Append(outbound, u)
                                /\ upstream' = [upstream EXCEPT !.fetch = "pending"]
                                /\ UNCHANGED responses

\* await fetch(tmdbApiUrl) resolves
FetchResolve ==
    /\ pc = "fetching"
    /\ pc' = "parsing"
    /\ upstream' = [upstream EXCEPT !.fetch = "resolved", !.json = "pending"]
    /\ UNCHANGED <<method, params, env, action, tmdbApiUrl, outbound, responses>>

\* variant: a rejected fetch is tried once more before giving up
FetchReject_retry ==
    /\ pc = "fetching"
    /\ IF Len(outbound) < 2
       THEN /\ outbound' = Append(outbound, tmdbApiUrl)
            /\ UNCHANGED <<pc, upstream, responses>>
       ELSE /\ upstream' = [upstream EXCEPT !.fetch = "rejected"]
            /\ Return(upstreamFailureResponse)
            /\ UNCHANGED outbound
    /\ UNCHANGED <<method, params, env, action, tmdbApiUrl>>

\* await fetch(tmdbApiUrl) rejects: the catch block
FetchReject ==
    /\ pc = "fetching"
    /\ upstream' = [upstream EXCEPT !.fetch = "rejected"]
    /\ Return(upstreamFailureResponse)
    /\ UNCHANGED <<method, params, env, action, tmdbApiUrl, outbound>>

\* await tmdbResponse.json() resolves with data
JsonResolve(data) ==
    /\ pc = "parsing"
    /\ upstream' = [upstream EXCEPT !.json = "parsed", !.data = <<data>>]
    /\ Return(relayResponse(data))
    /\ UNCHANGED <<method, params, env, action, tmdbApiUrl, outbound>>

\* await tmdbResponse.json() rejects: the catch block
JsonReject ==
    /\ pc = "parsing"
    /\ upstream' = [upstream EXCEPT !.json = "failed"]
    /\ Return(upstreamFailureResponse)
    /\ UNCHANGED <<method, params, env, action, tmdbApiUrl, outbound>>

\* the runtime invokes the handler with an inbound request
Receive ==
    /\ pc = "idle"
    /\ \E m \in Methods, p \in Requests :
          \E e \in EnvsUpTo(MaxInputs - Cardinality(DOMAIN p)) : fetch(m, p, e)

Next ==
    \/ Receive
    \/ FetchResolve
    \/ FetchReject
    \/ \E data \in UpstreamData : JsonResolve(data)
    \/ JsonReject

Spec == Init /\ [][Next]_vars

TypeOK ==
    /\ pc \in {"idle", "fetching", "parsing", "done"}
    /\ Len(responses) <= 1
    /\ Len(outbound) <= 1

-----------------------------------------------------------------------------
(* Properties *)

\* the handler got past the preflight and the API key check
Routed == pc # "idle" /\ method # "OPTIONS" /\ truthy(env, "TMDB_API_KEY")

Responded == pc = "done" /\ Len(responses) = 1

ErrorBody(msg) == <<[error |-> msg]>>

\* The priority order of section 3, as (action, trigger) pairs
PriorityOrder ==
    <<"details", "credits", "popular", "search", "findByImdbId",
      "getExternalIds", "embed", "getProviders", "error">>

Trigger(i, p) ==
    CASE i = 1 -> "details" \in DOMAIN p
      [] i = 2 -> "credits" \in DOMAIN p
      [] i = 3 -> "popular" \in DOMAIN p
      [] i = 4 -> "query" \in DOMAIN p
      [] i = 5 -> "imdb_id" \in DOMAIN p /\ ~("action" \in DOMAIN p /\ p["action"] = "embed")
      [] i = 6 -> "tmdb_id" \in DOMAIN p
      [] i = 7 -> "action" \in DOMAIN p /\ p["action"] = "embed"
      [] i = 8 -> "action" \in DOMAIN p /\ p["action"] = "getProviders"
      [] i = 9 -> TRUE

\* C1: for every non-OPTIONS request with the API key set, the action chosen
\* is the first one whose trigger matches in the order details > credits >
\* popular > search > findByImdbId > getExternalIds > embed > getProviders >
\* error; action=embed with imdb_id and tmdb_id is getExternalIds.
C1_FirstMatchWins ==
    Routed =>
        /\ \E i \in 1..9 :
              /\ action = PriorityOrder[i]
              /\ Trigger(i, params)
              /\ \A j \in 1..(i - 1) : ~Trigger(j, params)
        /\ ({"imdb_id", "tmdb_id", "action"} \subseteq DOMAIN params
              /\ params["action"] = "embed"
              /\ DOMAIN params \cap {"details", "credits", "popular", "query"} = {}
            => action = "getExternalIds")

C1_Witness ==
    /\ Routed
    /\ {"imdb_id", "tmdb_id", "action"} \subseteq DOMAIN params
    /\ params["action"] = "embed"
    /\ params["imdb_id"] = ""
    /\ action = "getExternalIds"

\* C2: for every non-OPTIONS request whose API key is absent or empty the
\* response is 500 with the configuration error body, whatever the query
\* parameters are, and no action has been classified.
C2_MissingKeyIs500 ==
    (pc # "idle" /\ method # "OPTIONS"
        /\ ("TMDB_API_KEY" \notin DOMAIN env \/ env["TMDB_API_KEY"] = ""))
    => /\ Responded
       /\ responses[1].status = 500
       /\ responses[1].body =
            ErrorBody("Server configuration error: TMDB_API_KEY secret not set.")
       /\ action = ""
       /\ outbound = <<>>

C2_Witness ==
    /\ Responded
    /\ method = "GET"
    /\ "TMDB_API_KEY" \in DOMAIN env /\ env["TMDB_API_KEY"] = ""
    /\ "action" \in DOMAIN params /\ params["action"] = "getProviders"
    /\ responses[1].status = 500

SixOutbound ==
    {"details", "credits", "popular", "search", "findByImdbId", "getExternalIds"}

\* C3: for the six outbound-call actions the response is 200 with the
\* upstream data as body when the fetch resolved and its body parsed, and 502
\* with the upstream failure body when the fetch rejected or the parse
\* failed; no other status occurs and the call is made once.
C3_RelayOr502 ==
    (Routed /\ action \in SixOutbound /\ pc = "done")
    => /\ Len(responses) = 1
       /\ Len(outbound) = 1
       /\ \/ /\ upstream.fetch = "resolved" /\ upstream.json = "parsed"
             /\ responses[1].status = 200
             /\ responses[1].body = upstream.data
             /\ upstream.data # <<>>
          \/ /\ upstream.fetch = "rejected" \/ upstream.json = "failed"
             /\ responses[1].status = 502
             /\ responses[1].body = ErrorBody("Failed to fetch data from TMDB API.")

C3_Witness ==
    /\ Routed /\ action = "search" /\ pc = "done"
    /\ upstream.fetch = "resolved" /\ upstream.json = "failed"
    /\ responses[1].status = 502

\* C4: one inbound request issues at most one outbound call: exactly one,
\* settled before the response exists, when the action is one of the six
\* outbound-call actions, and none on every other path.
C4_AtMostOneOutbound ==
    /\ Len(outbound) <= 1
    /\ (Routed /\ action \in SixOutbound) =>
          /\ Len(outbound) = 1
          /\ outbound[1] = tmdbApiUrl
          /\ (responses # <<>> => upstream.fetch \in {"resolved", "rejected"})
          /\ (upstream.fetch = "pending" => responses = <<>>)
    /\ ~(Routed /\ action \in SixOutbound) =>
          /\ outbound = <<>>
          /\ upstream.fetch = "none"

C4_Witness ==
    /\ Routed /\ action = "getExternalIds" /\ pc = "done"
    /\ upstream.fetch = "rejected"
    /\ Len(outbound) = 1 /\ Len(responses) = 1

EmbedParamsMissing ==
    \/ "provider" \notin DOMAIN params \/ params["provider"] = ""
    \/ "imdb_id" \notin DOMAIN params \/ params["imdb_id"] = ""

\* C5: when the action is embed and provider or imdb_id is missing or empty,
\* the response is 400 with the embed failure body.
C5_EmbedMissingParamsIs400 ==
    (Routed /\ action = "embed" /\ EmbedParamsMissing)
    => /\ Responded
       /\ responses[1].status = 400
       /\ responses[1].body =
            ErrorBody("Invalid provider or unable to generate embed URL.")

FourProviders ==
    << [name |-> "alpha",   domain |-> "vidsrc.cc",   sandbox |-> TRUE],
       [name |-> "bravo",   domain |-> "vidrock.net", sandbox |-> TRUE],
       [name |-> "charlie", domain |-> "vidsrc.me",   sandbox |-> TRUE],
       [name |-> "delta",   domain |-> "vidfast.pro", sandbox |-> TRUE] >>

\* C6: a getProviders request and an embed request whose provider or imdb_id
\* is missing or empty both get status 200 with the body
\* {providers: <the fixed 4-entry list>}, same content and order every time.
C6_ProviderListFor200 ==
    (Routed /\ (action = "getProviders" \/ (action = "embed" /\ EmbedParamsMissing)))
    => /\ Responded
       /\ responses[1].status = 200
       /\ responses[1].body = <<[providers |-> FourProviders]>>
       /\ Len(responses[1].body[1].providers) = 4

C6_Witness ==
    /\ Routed /\ action = "embed" /\ Responded
    /\ "provider" \in DOMAIN params /\ params["provider"] = "vidsrc.cc"
    /\ "imdb_id" \notin DOMAIN params
    /\ responses[1].status = 200

FourDomains == {"vidsrc.cc", "vidrock.net", "vidsrc.me", "vidfast.pro"}

ImdbIds == {"tt123", "tt0944947"}

Types == {"movie", "tv", "TV"}

\* C7: for an embed request with non-empty provider and imdb_id,
\* generateEmbedUrl returns null exactly when provider is not one of the four
\* domains, whatever imdb_id, type and overrides are; then the response is
\* 400 with the embed failure body, and for the four domains it is 200 with
\* {embedUrl}.
C7_NullIffUnknownProvider ==
    (Routed /\ action = "embed" /\ ~EmbedParamsMissing)
    => LET provider == params["provider"]
       IN  /\ Responded
           /\ \A id \in ImdbIds \cup {params["imdb_id"]}, t \in Types, e \in Envs :
                 (generateEmbedUrl(provider, id, t, e) = <<>>) <=> (provider \notin FourDomains)
           /\ provider \notin FourDomains =>
                 /\ responses[1].status = 400
                 /\ responses[1].body =
                      ErrorBody("Invalid provider or unable to generate embed URL.")
           /\ provider \in FourDomains =>
                 /\ responses[1].status = 200
                 /\ DOMAIN responses[1].body[1] = {"embedUrl"}
                 /\ <<responses[1].body[1].embedUrl>> =
                      generateEmbedUrl(provider, params["imdb_id"],
                         IF "type" \in DOMAIN params /\ params["type"] = "tv"
                         THEN "tv" ELSE "movie", env)

C7_Witness ==
    /\ Routed /\ action = "embed" /\ Responded
    /\ "provider" \in DOMAIN params /\ params["provider"] = "toString"
    /\ "imdb_id" \in DOMAIN params /\ params["imdb_id"] = "tt123"
    /\ responses[1].status = 400

OverrideOf(provider) ==
    CASE provider = "vidsrc.cc"   -> "VIDSRC_CC_URL"
      [] provider = "vidrock.net" -> "VIDROCK_NET_URL"
      [] provider = "vidsrc.me"   -> "VIDSRC_ME_URL"
      [] provider = "vidfast.pro" -> "VIDFAST_PRO_URL"

DefaultOf(provider) ==
    CASE provider = "vidsrc.cc"   -> "https://vidsrc.cc/v2/embed/"
      [] provider = "vidrock.net" -> "https://vidrock.net/"
      [] provider = "vidsrc.me"   -> "https://vidsrc.me/embed/"
      [] provider = "vidfast.pro" -> "https://vidfast.pro/"

ExpectedEmbedUrl(provider, id, t, e) ==
    (IF OverrideOf(provider) \in DOMAIN e /\ e[OverrideOf(provider)] # ""
     THEN e[OverrideOf(provider)] ELSE DefaultOf(provider))
    \o t \o "/" \o id
    \o (IF provider = "vidfast.pro" THEN "?autoPlay=true" ELSE "")

\* the environment e without the overrides of the providers other than provider
OwnOverrideOnly(provider, e) ==
    [k \in DOMAIN e \cap {"TMDB_API_KEY", OverrideOf(provider)} |-> e[k]]

\* C8: for each of the four providers, every imdbId and mediaType in
\* {movie, tv}, generateEmbedUrl returns baseUrl + mediaType + "/" + imdbId,
\* plus "?autoPlay=true" for vidfast.pro only, baseUrl being the provider's
\* override when set and non-empty and the hardcoded default otherwise; the
\* override of one provider never changes the URL of another.
C8_EmbedUrlTemplate ==
    (Routed /\ action = "embed" /\ ~EmbedParamsMissing /\ params["provider"] \in FourDomains)
    => LET provider == params["provider"]
           seg == IF "type" \in DOMAIN params /\ params["type"] = "tv" THEN "tv" ELSE "movie"
       IN  /\ Responded
           /\ responses[1].body =
                <<[embedUrl |-> ExpectedEmbedUrl(provider, params["imdb_id"], seg, env)]>>
           /\ \A id \in ImdbIds, t \in {"movie", "tv"}, e \in Envs :
                 /\ generateEmbedUrl(provider, id, t, e) =
                      <<ExpectedEmbedUrl(provider, id, t, e)>>
                 /\ generateEmbedUrl(provider, id, t, e) =
                      generateEmbedUrl(provider, id, t, OwnOverrideOnly(provider, e))

C8_Witness ==
    /\ Routed /\ action = "embed" /\ Responded
    /\ "provider" \in DOMAIN params /\ params["provider"] = "vidfast.pro"
    /\ "type" \notin DOMAIN params
    /\ "VIDFAST_PRO_URL" \in DOMAIN env /\ env["VIDFAST_PRO_URL"] = "https://fast.mirror/"
    /\ responses[1].body = <<[embedUrl |-> "https://fast.mirror/movie/tt123?autoPlay=true"]>>

\* C9: every response carries the four CORS / nosniff headers with their
\* fixed values; Content-Type: application/json is present exactly on the
\* responses that have a body, which are all but the OPTIONS preflight.
C9_HeadersOnEveryResponse ==
    \A i \in 1..Len(responses) :
        LET r == responses[i]
        IN  /\ {"Access-Control-Allow-Origin", "Access-Control-Allow-Methods",
                "Access-Control-Allow-Headers", "X-Content-Type-Options"}
                  \subseteq DOMAIN r.headers
            /\ r.headers["Access-Control-Allow-Origin"] = "*"
            /\ r.headers["Access-Control-Allow-Methods"] = "GET, HEAD, OPTIONS"
            /\ r.headers["Access-Control-Allow-Headers"] = "Content-Type"
            /\ r.headers["X-Content-Type-Options"] = "nosniff"
            /\ ("Content-Type" \in DOMAIN r.headers) <=> (r.body # <<>>)
            /\ "Content-Type" \in DOMAIN r.headers
                  => r.headers["Content-Type"] = "application/json"
            /\ (r.body = <<>>) <=> (method = "OPTIONS")
            /\ r.status \in {200, 400, 500, 502}

C9_Witness ==
    /\ Responded
    /\ method = "OPTIONS"
    /\ responses[1].body = <<>>
    /\ "action" \in DOMAIN params

\* the search parameters p without the parameter name
Without(p, name) == [k \in DOMAIN p \ {name} |-> p[k]]

\* C10: the media-type segment of the URL built for details, credits,
\* getExternalIds and embed is "tv" iff type is exactly "tv" and "movie"
\* otherwise; for popular it is media_type when present and non-empty and
\* "movie" otherwise, so type has no effect on popular and media_type has no
\* effect on any other action.
C10_MediaSegment ==
    Routed =>
      LET key == env["TMDB_API_KEY"]
          t   == IF "type" \in DOMAIN params /\ params["type"] = "tv" THEN "tv" ELSE "movie"
          mt  == IF "media_type" \in DOMAIN params /\ params["media_type"] # ""
                 THEN params["media_type"] ELSE "movie"
          pg  == IF "page" \in DOMAIN params /\ params["page"] # ""
                 THEN params["page"] ELSE "1"
      IN  /\ action = "details" =>
                tmdbApiUrl = "https://api.themoviedb.org/3/" \o t \o "/"
                   \o params["details"] \o "?api_key=" \o key \o "&language=en-US"
          /\ action = "credits" =>
                tmdbApiUrl = "https://api.themoviedb.org/3/" \o t \o "/"
                   \o params["credits"] \o "/credits?api_key=" \o key \o "&language=en-US"
          /\ action = "getExternalIds" =>
                tmdbApiUrl = "https://api.themoviedb.org/3/" \o t \o "/"
                   \o params["tmdb_id"] \o "/external_ids?api_key=" \o key
          /\ action = "popular" =>
                tmdbApiUrl = "https://api.themoviedb.org/3/" \o mt
                   \o "/popular?api_key=" \o key \o "&language=en-US&page=" \o pg
          /\ (action = "embed" /\ ~EmbedParamsMissing /\ params["provider"] \in FourDomains) =>
                /\ Responded
                /\ responses[1].body =
                     <<[embedUrl |-> ExpectedEmbedUrl(params["provider"], params["imdb_id"], t, env)]>>
          /\ action = "popular" =>
                tmdbApiUrl = buildTmdbApiUrl(action, Without(params, "type"), key)
          /\ action \in SixOutbound \ {"popular"} =>
                tmdbApiUrl = buildTmdbApiUrl(action, Without(params, "media_type"), key)
          /\ action = "embed" =>
                localResponse(action, params, env)
                   = localResponse(action, Without(params, "media_type"), env)

C10_Witness ==
    /\ Routed /\ action = "popular"
    /\ "type" \in DOMAIN params /\ params["type"] = "tv"
    /\ "media_type" \notin DOMAIN params
    /\ "page" \notin DOMAIN params
    /\ tmdbApiUrl =
         "https://api.themoviedb.org/3/movie/popular?api_key=k3y&language=en-US&page=1"

====
